---- MODULE Spec2Model ----
(***************************************************************************)
(* Entrope: the audio callback EntropeRust::process of src/src/lib.rs and  *)
(* the host that drives it.                                                *)
(*                                                                         *)
(* f32 values are integers counting multiples of 2^-Frac.  Every sample,   *)
(* threshold and step the model reaches is such a multiple, so the only    *)
(* rounding an f32 operation can perform is the rounding to a 24-bit       *)
(* significand, which RoundF32 models (round to nearest, ties to even).    *)
(* The crush depth is an integer counting multiples of 1/DepthDen.         *)
(***************************************************************************)
EXTENDS Integers, Sequences, FiniteSets

VARIABLES crush, redux, entropy, clip, gen, buffer, call, pc

vars == <<crush, redux, entropy, clip, gen, buffer, call, pc>>

----------------------------------------------------------------------------
(* Bounds of the model *)

\* frames of the longest buffer the host hands over
MaxLen == 3

\* draws after which the host sends no more calls that draw
MaxDraws == 1

----------------------------------------------------------------------------
(* f32 arithmetic *)

Frac == 26

One == 2^Frac

DepthDen == 2

\* bits of an f32 significand
MantBits == 24

Abs(x) == IF x < 0 THEN -x ELSE x

Sign(x) == IF x < 0 THEN -1 ELSE 1

RECURSIVE Ulp(_)
\* spacing of the f32 values around magnitude a, in multiples of 2^-Frac
Ulp(a) == IF a < 2^MantBits THEN 1 ELSE 2 * Ulp(a \div 2)

\* the f32 nearest to x, ties to even
RoundF32(x) ==
    LET a == Abs(x)
        u == Ulp(a)
        q == a \div u
        r == a % u
        up == (2 * r > u) \/ (2 * r = u /\ q % 2 = 1)
    IN  Sign(x) * (IF up THEN q + 1 ELSE q) * u

\* a * b on f32; both operands are multiples of 2^-(Frac \div 2) in the model
MulF32(a, b) ==
    LET h == 2^(Frac \div 2)
    IN  RoundF32((a \div h) * (b \div h))

\* crush / n as f32, in multiples of 1/DepthDen
DivF32(c, n) == c \div n

\* x % y with a remainder that is never negative
RemFloor(x, y) == IF y = 0 THEN 0 ELSE x % y

\* x % y of Rust on f32: exact, with the sign of the dividend; y = 0 stands
\* for a step below 2^-Frac, of which every model value is a multiple
RemF32(x, y) == IF y = 0 THEN 0 ELSE Sign(x) * (Abs(x) % y)

----------------------------------------------------------------------------
(* Parameters and buffers the host supplies *)

\* crush: FloatParam in [2.0, 32.0], default 32.0; the settings modelled
CrushDefault == 32 * DepthDen

CrushVals == {2 * DepthDen, 5 * DepthDen, CrushDefault}

\* redux: IntParam in [1, 100], default 1
ReduxVals == {1, 2, 3}

\* entropy: IntParam in [1, 100], default 1
EntropyVals == {1, 2, 3}

\* clip: FloatParam in [0.0, 1.0], default 1.0
ClipVals == {0, One \div 2, One}

\* channel counts of AUDIO_IO_LAYOUTS
Layouts == {1, 2}

\* sample values the host writes: -9/16 and 7/8
SampleVals == {-9 * (One \div 16), 7 * (One \div 8)}

\* a buffer is a sequence of channels, each a sequence of samples
Buffers ==
    UNION {[1..nch -> [1..len -> SampleVals]] : nch \in Layouts, len \in 0..MaxLen}

Channels(b) == Len(b)

Samples(b) == IF Len(b) = 0 THEN 0 ELSE Len(b[1])

----------------------------------------------------------------------------
(* EntropeRust::process, stage by stage *)

\* the range 1..entropy of gen_range, upper end excluded
DrawRange(e) == 1..(e - 1)

\* whether the call draws from the RNG
Draws(e) == e > 1

\* the division by n left out
EffectiveCrushUndivided(c, e, n) == c

\* the crush depth after the entropy modulator
EffectiveCrush(c, e, n) == IF Draws(e) THEN DivF32(c, n) ELSE c

\* a draw made before the guard
GenAfterAlways(g, e) == g + 1

\* the RNG after the entropy modulator
GenAfter(g, e) == IF Draws(e) THEN g + 1 ELSE g

\* the f32 nearest to 2^-2.5, in multiples of 2^-Frac: 1.0 / 2.0f32.powf(2.5)
StepTwoAndHalf == 11863283

\* 1.0 / base.powf(crush); 0 stands for a step below 2^-Frac
QStep(d) ==
    IF d % DepthDen = 0
    THEN IF d \div DepthDen <= Frac THEN 2^(Frac - d \div DepthDen) ELSE 0
    ELSE CASE d = 5 -> StepTwoAndHalf

\* the remainder left in the sample
QuantizeSkipped(sample, d) == sample

\* the remainder added instead of subtracted
QuantizeAdded(sample, d) == RoundF32(sample + RemF32(sample, QStep(d)))

\* let remainder = *sample % (1.0 / total_q_levels); *sample -= remainder
Quantize(sample, d) == RoundF32(sample - RemF32(sample, QStep(d)))

RECURSIVE Concat(_)
\* buffer.as_slice_immutable().concat()
Concat(b) == IF b = <<>> THEN <<>> ELSE Head(b) \o Concat(Tail(b))

RECURSIVE ScanMaxGreater(_, _)
\* the comparison of the scan turned around
ScanMaxGreater(s, m) ==
    IF s = <<>> THEN m
    ELSE ScanMaxGreater(Tail(s), IF Head(s) > m THEN Head(s) ELSE m)

RECURSIVE ScanMax(_, _)
\* the scan's variable max after the samples s, from max = m
ScanMax(s, m) ==
    IF s = <<>> THEN m
    ELSE ScanMax(Tail(s), IF Head(s) < m THEN Head(s) ELSE m)

RECURSIVE ScanMin(_, _)
\* the scan's variable min after the samples s, from min = m
ScanMin(s, m) ==
    IF s = <<>> THEN m
    ELSE ScanMin(Tail(s), IF Head(s) > m THEN Head(s) ELSE m)

\* the scan also run at clip = 1.0
ClipEnabledAlways(k) == k <= One

\* whether the min/max scan runs
ClipEnabled(k) == k < One

ClipMax(k, b) == IF ClipEnabled(k) THEN MulF32(k, ScanMax(Concat(b), 0)) ELSE 0

ClipMin(k, b) == IF ClipEnabled(k) THEN MulF32(k, ScanMin(Concat(b), 0)) ELSE 0

\* the two clamps of the per-sample pass
Clamp(sample, cmax, cmin) ==
    LET a == IF cmax # 0 /\ sample < cmax THEN cmax ELSE sample
    IN  IF cmin # 0 /\ a > cmin THEN cmin ELSE a

\* the hold test shifted by one
HoldsShifted(i, r) == r > 1 /\ (i + 1) % r # 0

\* whether the decimator replaces the sample at counter value i
Holds(i, r) == r > 1 /\ i % r # 0

\* whether the decimator stores the sample at counter value i
Captures(i, r) == r > 1 /\ i % r = 0

\* the initial value of the held cell
ReducedInit == 0

\* a counter that advances with every sample visited
PositionTraversal(i, c, nch) == i * nch + (c - 1)

\* a counter that advances with every sample of a channel-major traversal
PositionChannelMajor(i, c, nch) == i + (c - 1)

\* the counter value of the enumerate() at frame i, channel c
Position(i, c, nch) == i

\* one iteration of the inner loop: frame i (from 0), channel c (from 1)
SampleStep(st, i, c, d, r, cmax, cmin) ==
    LET q  == Quantize(st.buffer[c][i + 1], d)
        p  == Position(i, c, Channels(st.buffer))
        h  == IF Holds(p, r) THEN st.reduced ELSE q
        o  == Clamp(h, cmax, cmin)
    IN  [buffer    |-> [st.buffer EXCEPT ![c][i + 1] = o],
         quantized |-> [st.quantized EXCEPT ![c][i + 1] = q],
         decimated |-> [st.decimated EXCEPT ![c][i + 1] = h],
         counter   |-> [st.counter EXCEPT ![c][i + 1] = p],
         reduced   |-> IF Captures(p, r) THEN q ELSE st.reduced]

RECURSIVE SampleLoop(_, _, _, _, _, _, _)
\* the nested loops, from frame i, channel c on
SampleLoop(st, i, c, d, r, cmax, cmin) ==
    IF i >= Samples(st.buffer) THEN st
    ELSE IF c > Channels(st.buffer) THEN SampleLoop(st, i + 1, 1, d, r, cmax, cmin)
    ELSE SampleLoop(SampleStep(st, i, c, d, r, cmax, cmin), i, c + 1, d, r, cmax, cmin)

\* the loops over the buffer b with the held cell starting at r0
RunLoop(b, r0, d, r, cmax, cmin) ==
    SampleLoop([buffer |-> b, quantized |-> b, decimated |-> b, counter |-> b,
                reduced |-> r0],
               0, 1, d, r, cmax, cmin)

\* the locals of a call on the buffer b that drew n
ProcessCall(b, n) ==
    LET d    == EffectiveCrush(crush, entropy, n)
        cmax == ClipMax(clip, b)
        cmin == ClipMin(clip, b)
        st   == RunLoop(b, ReducedInit, d, redux, cmax, cmin)
    IN  [input |-> b, n |-> n, crush |-> d, clip_max |-> cmax, clip_min |-> cmin,
         quantized |-> st.quantized, decimated |-> st.decimated,
         counter |-> st.counter, output |-> st.buffer]

NoCall ==
    [input |-> <<>>, n |-> 0, crush |-> 0, clip_max |-> 0, clip_min |-> 0,
     quantized |-> <<>>, decimated |-> <<>>, counter |-> <<>>, output |-> <<>>]

----------------------------------------------------------------------------
(* The state machine *)

Init ==
    /\ crush = CrushDefault
    /\ redux = 1
    /\ entropy = 1
    /\ clip = One
    /\ gen = 0
    /\ buffer = <<>>
    /\ call = NoCall
    /\ pc = "idle"

\* the host or the editor sets a parameter between two calls
SetCrush(c) ==
    /\ pc = "idle"
    /\ c # crush
    /\ crush' = c
    /\ UNCHANGED <<redux, entropy, clip, gen, buffer, call, pc>>

SetRedux(r) ==
    /\ pc = "idle"
    /\ r # redux
    /\ redux' = r
    /\ UNCHANGED <<crush, entropy, clip, gen, buffer, call, pc>>

SetEntropy(e) ==
    /\ pc = "idle"
    /\ e # entropy
    /\ entropy' = e
    /\ UNCHANGED <<crush, redux, clip, gen, buffer, call, pc>>

SetClip(k) ==
    /\ pc = "idle"
    /\ k # clip
    /\ clip' = k
    /\ UNCHANGED <<crush, redux, entropy, gen, buffer, call, pc>>

\* the host calls process on the buffer b
Process(b) ==
    /\ pc = "idle"
    /\ Draws(entropy) => gen < MaxDraws
    /\ \E n \in (IF Draws(entropy) THEN DrawRange(entropy) ELSE {0}) :
          call' = ProcessCall(b, n)
    /\ buffer' = call'.output
    /\ gen' = GenAfter(gen, entropy)
    /\ pc' = "done"
    /\ UNCHANGED <<crush, redux, entropy, clip>>

\* the host takes the processed buffer; the call's locals are gone
Release ==
    /\ pc = "done"
    /\ pc' = "idle"
    /\ buffer' = <<>>
    /\ call' = NoCall
    /\ UNCHANGED <<crush, redux, entropy, clip, gen>>

Next ==
    \/ \E c \in CrushVals : SetCrush(c)
    \/ \E r \in ReduxVals : SetRedux(r)
    \/ \E e \in EntropyVals : SetEntropy(e)
    \/ \E k \in ClipVals : SetClip(k)
    \/ \E b \in Buffers : Process(b)
    \/ Release

Spec == Init /\ [][Next]_vars

----------------------------------------------------------------------------
(* Properties of a finished call *)

Done == pc = "done"

\* a Process step
ProcessStep == pc = "idle" /\ pc' = "done"

Chans == 1..Channels(call.input)

\* frame indices, from 0
Frames == 0..(Samples(call.input) - 1)

\* frame f of channel c
At(b, c, f) == b[c][f + 1]

SampleSet(b) == {b[c][f] : c \in 1..Channels(b), f \in 1..Samples(b)}

\* the buffer's maximum sample, or 0 if no sample is above 0
BufMax(b) ==
    LET S == SampleSet(b) \cup {0} IN CHOOSE m \in S : \A x \in S : x <= m

\* the buffer's minimum sample, or 0 if no sample is below 0
BufMin(b) ==
    LET S == SampleSet(b) \cup {0} IN CHOOSE m \in S : \A x \in S : m <= x

\* the last frame at or before f whose index modulo redux is zero
LastCapture(f) == f - (f % redux)

\* x is less than the quantization step of depth d
BelowStep(x, d) == IF QStep(d) = 0 THEN x <= 0 ELSE x < QStep(d)

\* some sample of the call was changed by the quantizer
SomeQuantized == \E c \in Chans, f \in Frames : At(call.quantized, c, f) # At(call.input, c, f)

\* C1 as stated: for clip < 1.0, clipMax = clip * (the buffer's maximum sample, or 0)
\* and clipMin = clip * (the buffer's minimum sample, or 0), taken before the pass.
C1_ThresholdsFromMaxAndMin ==
    (Done /\ clip < One) =>
        /\ call.clip_max = MulF32(clip, BufMax(call.input))
        /\ call.clip_min = MulF32(clip, BufMin(call.input))

\* C1 amended: for clip < 1.0, clipMax = clip * (the buffer's minimum sample, or 0
\* if no sample is below 0) and clipMin = clip * (the buffer's maximum sample, or 0
\* if no sample is above 0), both taken from the buffer before the per-sample pass.
C1_ThresholdsFromMinAndMax ==
    (Done /\ clip < One) =>
        /\ call.clip_max = MulF32(clip, BufMin(call.input))
        /\ call.clip_min = MulF32(clip, BufMax(call.input))

C1_Witness ==
    /\ Done
    /\ clip = One \div 2
    /\ BufMax(call.input) > 0
    /\ BufMin(call.input) < 0
    /\ call.clip_max = BufMin(call.input) \div 2
    /\ call.clip_min = BufMax(call.input) \div 2

C3_OneDrawFixesDepth ==
    [][(ProcessStep /\ entropy > 1) =>
          /\ gen' = gen + 1
          /\ call'.n >= 1
          /\ call'.n < entropy
          /\ call'.crush = DivF32(crush, call'.n)
          /\ \A c \in 1..Channels(call'.input), f \in 1..Samples(call'.input) :
                call'.quantized[c][f] = Quantize(call'.input[c][f], DivF32(crush, call'.n))
       ]_vars

C3_Witness ==
    /\ Done
    /\ entropy = 3
    /\ call.n = 2
    /\ gen = 1
    /\ call.crush # crush
    /\ Channels(call.input) = 2
    /\ SomeQuantized

\* C4: a call with entropy = 1 makes no draw (the RNG is left as it was and no
\* range is sampled) and quantizes every sample at the raw crush depth.
C4_NoDrawKeepsCrush ==
    [][(ProcessStep /\ entropy = 1) =>
          /\ gen' = gen
          /\ ~Draws(entropy)
          /\ call'.crush = crush
          /\ \A c \in 1..Channels(call'.input), f \in 1..Samples(call'.input) :
                call'.quantized[c][f] = Quantize(call'.input[c][f], crush)
       ]_vars

C4_Witness ==
    /\ Done
    /\ entropy = 1
    /\ gen = 1
    /\ call.crush = crush
    /\ SomeQuantized

\* the quantization step of crush = 2.0
QuarterStep == One \div 4

\* C5 as stated: for crush = 2.0 and entropy = 1, every output sample is an integer
\* multiple of 0.25, for every redux and clip setting.
C5_OutputOnQuarterGrid ==
    (Done /\ crush = 2 * DepthDen /\ entropy = 1) =>
        \A c \in Chans, f \in Frames : At(call.output, c, f) % QuarterStep = 0

\* C5 amended: for crush = 2.0 and entropy = 1, every output sample is an integer
\* multiple of 0.25 or is one of the two clip thresholds, for every redux and clip.
C5_OutputOnQuarterGridOrThreshold ==
    (Done /\ crush = 2 * DepthDen /\ entropy = 1) =>
        \A c \in Chans, f \in Frames :
            \/ At(call.output, c, f) % QuarterStep = 0
            \/ At(call.output, c, f) \in {call.clip_max, call.clip_min}

C5_Witness ==
    /\ Done
    /\ crush = 2 * DepthDen
    /\ entropy = 1
    /\ clip = One \div 2
    /\ redux = 2
    /\ \E c \in Chans, f \in Frames :
          /\ At(call.quantized, c, f) % QuarterStep = 0
          /\ At(call.quantized, c, f) # At(call.input, c, f)
          /\ At(call.output, c, f) = call.clip_max
          /\ At(call.output, c, f) % QuarterStep # 0

\* C6 as stated: the quantizer step applied to an already-quantized value returns
\* the same value, for every sample and every effective crush depth.
C6_QuantizerIdempotent ==
    Done =>
        \A c \in Chans, f \in Frames :
            Quantize(At(call.quantized, c, f), call.crush) = At(call.quantized, c, f)

\* C6 amended: the quantizer step applied to an already-quantized value returns the
\* same value, for every sample and every effective crush depth that is a whole number.
C6_QuantizerIdempotentAtWholeDepth ==
    (Done /\ call.crush % DepthDen = 0) =>
        \A c \in Chans, f \in Frames :
            /\ Quantize(At(call.quantized, c, f), call.crush) = At(call.quantized, c, f)
            /\ RemF32(At(call.quantized, c, f), QStep(call.crush)) = 0

C6_Witness ==
    /\ Done
    /\ call.crush = 2 * DepthDen
    /\ \E c \in Chans, f \in Frames :
          /\ At(call.quantized, c, f) # At(call.input, c, f)
          /\ At(call.quantized, c, f) < 0
          /\ Quantize(At(call.quantized, c, f), call.crush) = At(call.quantized, c, f)

\* C7: for clip = 1.0 both thresholds stay 0 and every sample leaves the clipping
\* stage with the value the quantizer and decimator gave it.
C7_ClipOneBypasses ==
    (Done /\ clip = One) =>
        /\ call.clip_max = 0
        /\ call.clip_min = 0
        /\ call.output = call.decimated

C7_Witness ==
    /\ Done
    /\ clip = One
    /\ BufMax(call.input) > 0
    /\ BufMin(call.input) < 0
    /\ call.output = call.decimated
    /\ call.output # call.input

C9_CounterPerSample ==
    Done =>
        \A c \in Chans, f \in Frames :
            /\ At(call.counter, c, f) = f * Channels(call.input) + (c - 1)
            /\ \A c2 \in Chans : c2 # c => At(call.counter, c2, f) # At(call.counter, c, f)

\* C9 amended: the counter of the hold test is the time-frame index alone: it
\* advances by one per frame, and all samples of one frame have the same value.
C9_CounterPerFrame ==
    Done =>
        \A c \in Chans, f \in Frames :
            /\ At(call.counter, c, f) = f
            /\ \A c2 \in Chans : At(call.counter, c2, f) = At(call.counter, c, f)

C9_Witness ==
    /\ Done
    /\ redux = 2
    /\ Channels(call.input) = 2
    /\ Samples(call.input) >= 2
    /\ At(call.quantized, 1, 0) # At(call.quantized, 2, 0)
    /\ At(call.decimated, 2, 0) = At(call.quantized, 2, 0)
    /\ At(call.decimated, 1, 1) = At(call.quantized, 2, 0)

====
